---- MODULE Spec2Model ----
(***************************************************************************)
(* A model of the Genie+ merge engine (class CGenie, c_genie.h), of the    *)
(* degree computer Cget_graph_node_degrees and of the union-find class     *)
(* DisjointSets (disjoint_sets.h).                                         *)
(*                                                                         *)
(* Arrays keep the source's 0-based indices: an array of length len is a   *)
(* function with domain 0..len-1.  Edge slot e of mst_i holds the pair     *)
(* <<mst_i[2e+0], mst_i[2e+1]>>.  The Gini threshold and the Gini index    *)
(* are exact rationals <<numerator, denominator>>.                         *)
(***************************************************************************)
EXTENDS Integers, Sequences, FiniteSets, TLC

\* ------------------------------------------------------------------------
\* Bounds of the model
\* ------------------------------------------------------------------------

\* largest number of vertices of an enumerated MST
MaxN == 5

\* up to this number of vertices every vertex numbering of a tree is
\* enumerated
MaxFullN == 3

\* up to this number of vertices two numberings of each edge sequence are
\* enumerated (order of first appearance and its reverse), above it one
MaxTwoN == 5

\* largest number of vertices handed to the constructor with unchecked
\* (possibly invalid) edges and weights
MaxCtorN == 3

\* weights are drawn from 0..MaxW
MaxW == 2

\* largest number of elements of a stand-alone DisjointSets
MaxDS == 4

\* largest number of vertices of a tree handed to the constructor with
\* unchecked weights
MaxSortN == 4

\* largest number of edges handed to Cget_graph_node_degrees on its own
MaxEdges == 2

\* largest number xc * yc of entries of a matrix handed to Capply_pivoting
MaxCells == 6

\* the entries of such a matrix are drawn from 0..MaxCount
MaxCount == 2

\* ------------------------------------------------------------------------
\* Inputs
\* ------------------------------------------------------------------------

Min2(a, b) == IF a < b THEN a ELSE b

Max2(a, b) == IF a < b THEN b ELSE a

\* slot q of the edge sequence es touches the vertex a
Touches(es, q, a) == es[q][1] = a \/ es[q][2] = a

\* of two vertices that first appear in the same edge, the one met again
\* first has the smaller number
Canonical(es) ==
    \A p \in 1..Len(es) :
        LET a == es[p][1]
            b == es[p][2]
            later == {q \in p+1..Len(es) : Touches(es, q, a) \/ Touches(es, q, b)}
        IN  (/\ \A q \in 1..p-1 : ~Touches(es, q, a) /\ ~Touches(es, q, b)
             /\ later # {})
            => Touches(es, CHOOSE q \in later : \A q2 \in later : q <= q2, a)

\* The edge sequences (1-based, as built) of all spanning trees on the
\* vertices 0..nn-1, in every edge order, one sequence for each class of
\* sequences equal up to the numbering of the vertices: the vertices are
\* numbered in order of first appearance.  es is the prefix built so far,
\* v the number of vertices met, comp[a] the component of vertex a in the
\* forest es.
RECURSIVE GenSeqs(_, _, _, _)
GenSeqs(nn, es, v, comp) ==
    IF Len(es) = nn - 1
    THEN IF v = nn /\ Canonical(es) THEN {es} ELSE {}
    ELSE LET old  == {<<a, b>> \in (0..v-1) \X (0..v-1) :
                          a < b /\ comp[a] # comp[b]}
             one  == IF v < nn THEN {<<a, v>> : a \in 0..v-1} ELSE {}
             two  == IF v + 1 < nn THEN {<<v, v+1>>} ELSE {}
             Join(c) == [x \in 0..nn-1 |->
                            IF x = c[2] \/ (x < v /\ c[2] < v /\ comp[x] = comp[c[2]])
                            THEN comp[c[1]] ELSE comp[x]]
         IN  UNION {GenSeqs(nn, Append(es, c), Max2(v, c[2] + 1), Join(c)) :
                        c \in old \cup one \cup two}

TreeSeqs(nn) == GenSeqs(nn, <<>>, 0, [x \in 0..nn-1 |-> x])

\* the vertex numberings applied to the edge sequences of nn vertices
Relabelings(nn) ==
    IF nn <= MaxFullN
    THEN {f \in [0..nn-1 -> 0..nn-1] : \A a, b \in 0..nn-1 : f[a] = f[b] => a = b}
    ELSE IF nn <= MaxTwoN
         THEN {[x \in 0..nn-1 |-> x], [x \in 0..nn-1 |-> nn - 1 - x]}
         ELSE {[x \in 0..nn-1 |-> x]}

\* the edge arrays of every enumerated spanning tree on nn vertices
TreeEdges(nn) ==
    {[e \in 0..nn-2 |-> <<f[es[e+1][1]], f[es[e+1][2]]>>] :
        es \in TreeSeqs(nn), f \in Relabelings(nn)}

\* the thresholds tried on every tree: 0, 0.3 and 1
Thresholds == {<<0, 1>>, <<3, 10>>, <<1, 1>>}

\* the caller's label buffer before the call: a value no run writes
FreshLabels(nn) == [i \in 0..nn-1 |-> 0 - 9]

\* ------------------------------------------------------------------------
\* State
\* ------------------------------------------------------------------------

VARIABLES
    pc,                 \* position of the caller: which call comes next, or the exception raised
    n,                  \* CGenie::n
    mst_d,              \* CGenie::mst_d, the n-1 weights
    mst_i,              \* CGenie::mst_i, the n-1 edges
    noise_leaves,       \* CGenie::noise_leaves
    n_clusters,         \* argument of apply_genie
    gini_threshold,     \* argument of apply_genie
    res,                \* the caller's label buffer (argument res of apply_genie)
    deg,                \* CGenie::deg
    noise_count,        \* CGenie::noise_count
    denoise_index,      \* CGenie::denoise_index
    denoise_index_rev,  \* CGenie::denoise_index_rev
    next_edge,          \* CGenie::next_edge
    prev_edge,          \* CGenie::prev_edge
    curidx,             \* CGenie::curidx
    lastidx,            \* CGenie::lastidx
    ds,                 \* CGenie::ds, or the stand-alone DisjointSets object
    lastm,              \* local lastm of do_genie
    it,                 \* loop counter i of do_genie
    merged,             \* history: the edge slots handed to ds.merge, in order
    branch,             \* history: the branch of each iteration, "G" or "S"
    oob,                \* history: an array was indexed outside its bounds
    call,               \* history: the last stand-alone call, its arguments and result
    C,                  \* argument C of Capply_pivoting: the matrix, row after row
    xc,                 \* argument xc of Capply_pivoting: the number of rows
    yc                  \* argument yc of Capply_pivoting: the number of columns

vars == <<pc, n, mst_d, mst_i, noise_leaves, n_clusters, gini_threshold, res,
          deg, noise_count, denoise_index, denoise_index_rev, next_edge,
          prev_edge, curidx, lastidx, ds, lastm, it, merged, branch, oob, call,
          C, xc, yc>>

input_vars == <<n, mst_d, mst_i, noise_leaves, n_clusters, gini_threshold,
                C, xc, yc>>

ctor_vars == <<deg, noise_count, denoise_index, denoise_index_rev>>

skiplist_vars == <<next_edge, prev_edge, curidx, lastidx>>

loop_vars == <<ds, lastm, it, merged, branch>>

\* ------------------------------------------------------------------------
\* DisjointSets (disjoint_sets.h)
\* ------------------------------------------------------------------------

\* DisjointSets(n): n singletons
DisjointSets(nn) == [n |-> nn, k |-> nn, par |-> [i \in 0..nn-1 |-> i]]

\* FindRec without the assignment to par[x]: no path compression
RECURSIVE FindRecMut(_, _)
FindRecMut(par, x) ==
    IF par[x] # x
    THEN LET r == FindRecMut(par, par[x])
         IN  [par |-> r.par, ret |-> r.ret]
    ELSE [par |-> par, ret |-> par[x]]

\* the recursion of find on an in-range x: the parent vector it leaves and
\* the value it returns
RECURSIVE FindRec(_, _)
FindRec(par, x) ==
    IF par[x] # x
    THEN LET r == FindRec(par, par[x])
         IN  [par |-> [r.par EXCEPT ![x] = r.ret], ret |-> r.ret]
    ELSE [par |-> par, ret |-> par[x]]

\* find(x): range check, then the recursion
find(d, x) ==
    IF x < 0 \/ x >= d.n
    THEN [ds |-> d, ret |-> -1, err |-> "domain_error"]
    ELSE LET r == FindRec(d.par, x)
         IN  [ds |-> [d EXCEPT !.par = r.par], ret |-> r.ret, err |-> "none"]

\* Link with the roles of the roots exchanged: the smaller root gets the
\* larger one as its parent
LinkMut(d, x, y) ==
    LET lo == IF y < x THEN y ELSE x
        hi == IF y < x THEN x ELSE y
    IN  [ds |-> [d EXCEPT !.par[lo] = hi, !.k = d.k - 1], ret |-> hi, err |-> "none"]

\* Link without the swap: the root of y is put under the root of x
LinkNoSwap(d, x, y) ==
    [ds |-> [d EXCEPT !.par[y] = x, !.k = @ - 1], ret |-> x, err |-> "none"]

\* Link without the decrement of k
LinkKeepK(d, x, y) ==
    LET lo == IF y < x THEN y ELSE x
        hi == IF y < x THEN x ELSE y
    IN  [ds |-> [d EXCEPT !.par[hi] = lo], ret |-> lo, err |-> "none"]

\* the link step of merge on two distinct roots: the larger root gets the
\* smaller one as its parent
Link(d, x, y) ==
    LET lo == IF y < x THEN y ELSE x
        hi == IF y < x THEN x ELSE y
    IN  [ds |-> [d EXCEPT !.par[hi] = lo, !.k = d.k - 1], ret |-> lo, err |-> "none"]

\* merge without the test find(x) == find(y)
mergeMut(d, x, y) ==
    LET fx == find(d, x)
    IN  IF fx.err # "none" THEN fx
        ELSE LET fy == find(fx.ds, y)
             IN  IF fy.err # "none" THEN fy
                 ELSE Link(fy.ds, fx.ret, fy.ret)

\* merge(x, y)
merge(d, x, y) ==
    LET fx == find(d, x)
    IN  IF fx.err # "none" THEN fx
        ELSE LET fy == find(fx.ds, y)
             IN  IF fy.err # "none" THEN fy
                 ELSE IF fx.ret = fy.ret
                      THEN [ds |-> fy.ds, ret |-> -1, err |-> "invalid_argument"]
                      ELSE Link(fy.ds, fx.ret, fy.ret)

\* the root of x without path compression (specification device)
RECURSIVE Root(_, _)
Root(par, x) == IF par[x] = x THEN x ELSE Root(par, par[x])

\* ------------------------------------------------------------------------
\* CGiniDisjointSets (c_gini_disjoint_sets.h is not among the sources; the
\* class is modelled from the specification's section 4.4: a DisjointSets
\* with the size cnt of every root, the number tab[s] of sets of each size
\* s, and the smallest occupied size)
\* ------------------------------------------------------------------------

CGiniDisjointSets(nn) ==
    [n |-> nn, k |-> nn, par |-> [i \in 0..nn-1 |-> i],
     cnt |-> [i \in 0..nn-1 |-> 1],
     tab |-> [s \in 1..nn |-> IF s = 1 THEN nn ELSE 0],
     smallest |-> 1]

\* get_count(x): the size of the set containing x
get_count(d, x) == d.cnt[Root(d.par, x)]

\* get_smallest_count()
get_smallest_count(d) == d.smallest

\* the number of sets of a size below s
RECURSIVE SetsBelow(_, _)
SetsBelow(d, s) == IF s <= 1 THEN 0 ELSE d.tab[s-1] + SetsBelow(d, s - 1)

\* the sum over the sizes 1..s of (2i - k - 1) s_i, the sets ranked by size
RECURSIVE GiniNumUpTo(_, _)
GiniNumUpTo(d, s) ==
    IF s < 1 THEN 0
    ELSE d.tab[s] * s * (2 * SetsBelow(d, s) + d.tab[s] - d.k) + GiniNumUpTo(d, s - 1)

\* the numerator and the denominator of get_gini()
get_gini(d) ==
    IF d.k <= 1 THEN <<0, 1>> ELSE <<GiniNumUpTo(d, d.n), (d.k - 1) * d.n>>

\* GiniAbove with the comparison turned round
GiniAboveMut(d, g) == get_gini(d)[1] * g[2] < g[1] * get_gini(d)[2]

\* the test ds.get_gini() > gini_threshold of do_genie
GiniAbove(d, g) == get_gini(d)[1] * g[2] > g[1] * get_gini(d)[2]

\* the smallest occupied size of the table t at or above s
RECURSIVE NextOccupied(_, _, _)
NextOccupied(t, s, nn) ==
    IF s > nn THEN s ELSE IF t[s] > 0 THEN s ELSE NextOccupied(t, s + 1, nn)

\* Resize that leaves the smallest pointer where it was
ResizeMut(d, lo, hi) ==
    LET a  == d.cnt[lo]
        b  == d.cnt[hi]
        t1 == [d.tab EXCEPT ![a] = @ - 1]
        t2 == [t1 EXCEPT ![b] = @ - 1]
        t3 == [t2 EXCEPT ![a + b] = @ + 1]
    IN  [d EXCEPT !.cnt = [d.cnt EXCEPT ![lo] = a + b, ![hi] = 0],
                  !.tab = t3]

\* the size bookkeeping of a union of the roots lo < hi
Resize(d, lo, hi) ==
    LET a  == d.cnt[lo]
        b  == d.cnt[hi]
        t1 == [d.tab EXCEPT ![a] = @ - 1]
        t2 == [t1 EXCEPT ![b] = @ - 1]
        t3 == [t2 EXCEPT ![a + b] = @ + 1]
    IN  [d EXCEPT !.cnt = [d.cnt EXCEPT ![lo] = a + b, ![hi] = 0],
                  !.tab = t3,
                  !.smallest = NextOccupied(t3, d.smallest, d.n)]

\* CGiniDisjointSets::merge(x, y)
gini_merge(d, x, y) ==
    LET m == merge(d, x, y)
    IN  IF m.err # "none" THEN m
        ELSE LET rx == Root(d.par, x)
                 ry == Root(d.par, y)
             IN  [m EXCEPT !.ds = Resize(m.ds, Min2(rx, ry), Max2(rx, ry))]

\* ------------------------------------------------------------------------
\* Cget_graph_node_degrees (c_genie.h)
\* ------------------------------------------------------------------------

\* EdgeCheck with the range test off by one (> n for >= n)
EdgeCheckMut(u, v, nn) ==
    IF u < 0 \/ v < 0 THEN "skip"
    ELSE IF u > nn \/ v > nn THEN "domain_error"
    ELSE IF u = v THEN "domain_error"
    ELSE "count"

\* what the loop body does with the edge (u, v)
EdgeCheck(u, v, nn) ==
    IF u < 0 \/ v < 0 THEN "skip"
    ELSE IF u >= nn \/ v >= nn THEN "domain_error"
    ELSE IF u = v THEN "domain_error"
    ELSE "count"

\* the loop over the edges from slot i on, dg the degrees so far
RECURSIVE DegLoop(_, _, _, _, _)
DegLoop(ind, num_edges, nn, i, dg) ==
    IF ~(i < num_edges) THEN [deg |-> dg, err |-> "none"]
    ELSE LET u == ind[i][1]
             v == ind[i][2]
             c == EdgeCheck(u, v, nn)
         IN  IF c = "skip" THEN DegLoop(ind, num_edges, nn, i + 1, dg)
             ELSE IF c = "domain_error" THEN [deg |-> dg, err |-> "domain_error"]
             ELSE DegLoop(ind, num_edges, nn, i + 1,
                          [dg EXCEPT ![u] = @ + 1, ![v] = @ + 1])

Cget_graph_node_degrees(ind, num_edges, nn) ==
    DegLoop(ind, num_edges, nn, 0, [i \in 0..nn-1 |-> 0])

\* ------------------------------------------------------------------------
\* CGenie::CGenie
\* ------------------------------------------------------------------------

\* Unsorted with the loop ending one pair early
UnsortedMut(d, nn) == \E i \in 1..nn-3 : d[i-1] > d[i]

\* the weight check: some i in [1, n-2] with mst_d[i-1] > mst_d[i]
Unsorted(d, nn) == \E i \in 1..nn-2 : d[i-1] > d[i]

\* the loop building the translation table in noise mode, from vertex i on
RECURSIVE DenoiseLoop(_, _, _, _, _, _, _)
DenoiseLoop(nn, dg, i, j, nc, di, dir) ==
    IF ~(i < nn) THEN [j |-> j, noise_count |-> nc, denoise_index |-> di,
                       denoise_index_rev |-> dir]
    ELSE IF dg[i] = 1
         THEN DenoiseLoop(nn, dg, i + 1, j, nc + 1, di, [dir EXCEPT ![i] = -1])
         ELSE DenoiseLoop(nn, dg, i + 1, j + 1, nc,
                          [di EXCEPT ![j] = i], [dir EXCEPT ![i] = j])

\* EnoughNoise with the assertion weakened to a count that is not negative
EnoughNoiseMut(nc) == nc >= 0

\* the assertion on the number of leaves found
EnoughNoise(nc) == nc >= 2

\* the constructor: the exception it raises ("none": it returns) and the
\* members it leaves
Construct(d, ind, nn, noise) ==
    LET zero == [i \in 0..nn-1 |-> 0]
        fail(e, dg) == [err |-> e, deg |-> dg, noise_count |-> 0,
                        denoise_index |-> zero, denoise_index_rev |-> zero]
        dr == Cget_graph_node_degrees(ind, nn - 1, nn)
        t  == DenoiseLoop(nn, dr.deg, 0, 0, 0, zero, zero)
    IN  IF Unsorted(d, nn) THEN fail("domain_error", zero)
        ELSE IF dr.err # "none" THEN fail(dr.err, dr.deg)
        ELSE IF noise
             THEN IF ~EnoughNoise(t.noise_count) THEN fail("runtime_error", dr.deg)
                  ELSE IF ~(t.j + t.noise_count = nn) THEN fail("runtime_error", dr.deg)
                  ELSE [err |-> "none", deg |-> dr.deg, noise_count |-> t.noise_count,
                        denoise_index |-> t.denoise_index,
                        denoise_index_rev |-> t.denoise_index_rev]
             ELSE [err |-> "none", deg |-> dr.deg, noise_count |-> 0,
                   denoise_index |-> [i \in 0..nn-1 |-> i],
                   denoise_index_rev |-> [i \in 0..nn-1 |-> i]]

\* the call of the constructor
CGenie ==
    /\ pc = "new"
    /\ LET c == Construct(mst_d, mst_i, n, noise_leaves)
       IN  /\ pc' = IF c.err = "none" THEN "constructed" ELSE c.err
           /\ deg' = c.deg
           /\ noise_count' = c.noise_count
           /\ denoise_index' = c.denoise_index
           /\ denoise_index_rev' = c.denoise_index_rev
    /\ UNCHANGED <<input_vars, res, skiplist_vars, loop_vars, oob, call>>

\* ------------------------------------------------------------------------
\* CGenie::skiplist_init
\* ------------------------------------------------------------------------

\* Eligible with || for &&: one endpoint of degree above 1 is enough
EligibleMut(dg, i1, i2) == dg[i1] > 1 \/ dg[i2] > 1

\* the test of an edge in noise mode: both endpoints are no leaves
Eligible(dg, i1, i2) == dg[i1] > 1 /\ dg[i2] > 1

\* the loop of the noise mode from edge slot i on
RECURSIVE SkipLoop(_, _, _, _, _, _, _, _)
SkipLoop(nn, ind, dg, i, cur, last, nx, pv) ==
    IF ~(i < nn - 1)
    THEN [curidx |-> cur, lastidx |-> last, next_edge |-> nx, prev_edge |-> pv]
    ELSE IF Eligible(dg, ind[i][1], ind[i][2])
         THEN IF cur < 0
              THEN SkipLoop(nn, ind, dg, i + 1, i, i, nx, [pv EXCEPT ![i] = -1])
              ELSE SkipLoop(nn, ind, dg, i + 1, cur, i,
                            [nx EXCEPT ![last] = i], [pv EXCEPT ![i] = last])
         ELSE SkipLoop(nn, ind, dg, i + 1, cur, last, nx, pv)

\* PlainChain with prev_edge[i] = i for prev_edge[i] = i-1
PlainChainMut(nn, nx, pv) ==
    [curidx |-> 0, lastidx |-> 0,
     next_edge |-> [i \in 0..nn-1 |-> IF i < nn - 1 THEN i + 1 ELSE nx[i]],
     prev_edge |-> [i \in 0..nn-1 |-> IF i < nn - 1 THEN i ELSE pv[i]]]

\* the chain of the mode without noise
PlainChain(nn, nx, pv) ==
    [curidx |-> 0, lastidx |-> 0,
     next_edge |-> [i \in 0..nn-1 |-> IF i < nn - 1 THEN i + 1 ELSE nx[i]],
     prev_edge |-> [i \in 0..nn-1 |-> IF i < nn - 1 THEN i - 1 ELSE pv[i]]]

\* skiplist_init, the first call of apply_genie.  In noise mode the
\* statement next_edge[lastidx] = n-1 writes next_edge[-1] when no edge is
\* eligible: undefined behaviour, here either a write that misses the
\* engine's members or the end of the process.
skiplist_init ==
    /\ pc = "constructed"
    /\ IF noise_leaves
       THEN LET r == SkipLoop(n, mst_i, deg, 0, -1, -1, next_edge, prev_edge)
            IN  IF r.lastidx \in 0..n-1
                THEN /\ next_edge' = [r.next_edge EXCEPT ![r.lastidx] = n - 1]
                     /\ prev_edge' = r.prev_edge
                     /\ curidx' = r.curidx
                     /\ lastidx' = r.curidx
                     /\ pc' = "skiplist"
                     /\ oob' = oob
                ELSE /\ next_edge' = r.next_edge
                     /\ prev_edge' = r.prev_edge
                     /\ curidx' = r.curidx
                     /\ lastidx' = r.curidx
                     /\ pc' \in {"skiplist", "crashed"}
                     /\ oob' = TRUE
       ELSE LET r == PlainChain(n, next_edge, prev_edge)
            IN  /\ next_edge' = r.next_edge
                /\ prev_edge' = r.prev_edge
                /\ curidx' = r.curidx
                /\ lastidx' = r.lastidx
                /\ pc' = "skiplist"
                /\ oob' = oob
    /\ UNCHANGED <<input_vars, res, ctor_vars, loop_vars, call>>

\* ------------------------------------------------------------------------
\* CGenie::do_genie
\* ------------------------------------------------------------------------

\* NumMerges with the loop ending one merge early
NumMergesMut == n - noise_count - n_clusters - 1

\* the number of merges to perform, n - noise_count - n_clusters
NumMerges == n - noise_count - n_clusters

\* the guard at the head of do_genie
TooManyClusters(nn, nc, k) == nn - nc - k <= 0

\* the head of do_genie: the guard, then the start of the merge loop
do_genie ==
    /\ pc = "skiplist"
    /\ IF TooManyClusters(n, noise_count, n_clusters)
       THEN /\ pc' = "runtime_error"
            /\ UNCHANGED loop_vars
       ELSE /\ pc' = "loop"
            /\ ds' = CGiniDisjointSets(n - noise_count)
            /\ lastm' = 0
            /\ it' = 0
            /\ UNCHANGED <<merged, branch>>
    /\ UNCHANGED <<input_vars, res, ctor_vars, skiplist_vars, oob, call>>

\* an edge slot whose endpoints can be read and translated
Readable(l) == l \in 0..n-2 /\ denoise_index_rev[mst_i[l][1]] >= 0
                            /\ denoise_index_rev[mst_i[l][2]] >= 0

\* NoneSmallest with || for &&: the walk goes on unless both endpoints are
\* in sets of size m
NoneSmallestMut(d, l, m) ==
    \/ get_count(d, denoise_index_rev[mst_i[l][1]]) # m
    \/ get_count(d, denoise_index_rev[mst_i[l][2]]) # m

\* the test of the walk at slot l: neither endpoint is in a set of size m
NoneSmallest(d, l, m) ==
    /\ get_count(d, denoise_index_rev[mst_i[l][1]]) # m
    /\ get_count(d, denoise_index_rev[mst_i[l][2]]) # m

\* WalkStart without the test lastidx < curidx
WalkStartStale(m, lm, cur, last) == IF m # lm THEN cur ELSE last

\* WalkStart without the test m != lastm
WalkStartMut(m, lm, cur, last) == IF last < cur THEN cur ELSE last

\* where the Genie walk starts
WalkStart(m, lm, cur, last) == IF m # lm \/ last < cur THEN cur ELSE last

\* Walk with an if for the while: at most one step along next_edge
WalkMut(d, l, m) ==
    IF ~Readable(l) THEN l
    ELSE IF NoneSmallest(d, l, m) THEN next_edge[l] ELSE l

\* the while loop of the Genie branch from slot l: the slot it stops at (a
\* slot that is not readable stops it as well)
RECURSIVE Walk(_, _, _)
Walk(d, l, m) ==
    IF ~Readable(l) THEN l
    ELSE IF NoneSmallest(d, l, m) THEN Walk(d, next_edge[l], m) ELSE l

\* the merge at the end of an iteration, of the endpoints of slot e
MergeEdge(e, br) ==
    LET r == gini_merge(ds, denoise_index_rev[mst_i[e][1]],
                            denoise_index_rev[mst_i[e][2]])
    IN  /\ ds' = r.ds
        /\ merged' = Append(merged, e)
        /\ branch' = Append(branch, br)
        /\ IF r.err = "none"
           THEN pc' = "loop" /\ it' = it + 1
           ELSE pc' = r.err /\ it' = it

\* an iteration that reads mst_i or the chain outside its bounds
\* Splice without the assignment next_edge[previdx] = lastidx
SpliceMut(nx, pv, l) ==
    [next_edge |-> nx,
     prev_edge |-> [pv EXCEPT ![nx[l]] = pv[l]]]

\* the removal of slot l from the middle of the chain
Splice(nx, pv, l) ==
    [next_edge |-> [nx EXCEPT ![pv[l]] = nx[l]],
     prev_edge |-> [pv EXCEPT ![nx[l]] = pv[l]]]

Undefined ==
    /\ pc' = "undefined"
    /\ oob' = TRUE
    /\ UNCHANGED <<skiplist_vars, loop_vars>>

\* an iteration of the loop through the Genie correction
GenieCorrection ==
    /\ pc = "loop"
    /\ it < NumMerges
    /\ GiniAbove(ds, gini_threshold)
    /\ LET m == get_smallest_count(ds)
           l == Walk(ds, WalkStart(m, lastm, curidx, lastidx), m)
       IN  IF ~Readable(l) THEN Undefined
           ELSE IF l = curidx
           THEN /\ curidx' = next_edge[curidx]
                /\ lastidx' = next_edge[curidx]
                /\ UNCHANGED <<next_edge, prev_edge, oob>>
                /\ lastm' = m
                /\ MergeEdge(l, "G")
           ELSE LET previdx == prev_edge[l]
                    nxt == next_edge[l]
                IN  IF previdx \notin 0..n-1 \/ nxt \notin 0..n-1 THEN Undefined
                    ELSE /\ lastidx' = nxt
                         /\ next_edge' = Splice(next_edge, prev_edge, l).next_edge
                         /\ prev_edge' = Splice(next_edge, prev_edge, l).prev_edge
                         /\ UNCHANGED <<curidx, oob>>
                         /\ lastm' = m
                         /\ MergeEdge(l, "G")
    /\ UNCHANGED <<input_vars, res, ctor_vars, call>>

\* an iteration of the loop through the single-linkage branch
SingleLinkage ==
    /\ pc = "loop"
    /\ it < NumMerges
    /\ ~GiniAbove(ds, gini_threshold)
    /\ IF ~Readable(curidx) THEN Undefined
       ELSE /\ curidx' = next_edge[curidx]
            /\ UNCHANGED <<lastidx, next_edge, prev_edge, lastm, oob>>
            /\ MergeEdge(curidx, "S")
    /\ UNCHANGED <<input_vars, res, ctor_vars, call>>

\* ------------------------------------------------------------------------
\* CGenie::get_labels
\* ------------------------------------------------------------------------

\* NonNoise with > for >=
NonNoiseMut(r) == r > 0

\* the test of get_labels on a translated vertex: a non-noise point
NonNoise(r) == r >= 0

\* the loop from vertex i on: c the next label, rid the scratch array
\* res_cluster_id, out the buffer, d the sets (find compresses paths)
\* LabelLoop with ++c moved out of the test res_cluster_id[j] < 0
RECURSIVE LabelLoopMut(_, _, _, _, _)
LabelLoopMut(i, c, rid, out, d) ==
    IF ~(i < n) THEN [res |-> out, ds |-> d, c |-> c]
    ELSE IF NonNoise(denoise_index_rev[i])
         THEN LET f == find(d, denoise_index_rev[i])
                  j == denoise_index[f.ret]
              IN  IF rid[j] < 0
                  THEN LabelLoopMut(i + 1, c + 1, [rid EXCEPT ![j] = c],
                                    [out EXCEPT ![i] = c], f.ds)
                  ELSE LabelLoopMut(i + 1, c + 1, rid, [out EXCEPT ![i] = rid[j]], f.ds)
         ELSE LabelLoopMut(i + 1, c, rid, [out EXCEPT ![i] = -1], d)

RECURSIVE LabelLoop(_, _, _, _, _)
LabelLoop(i, c, rid, out, d) ==
    IF ~(i < n) THEN [res |-> out, ds |-> d, c |-> c]
    ELSE IF NonNoise(denoise_index_rev[i])
         THEN LET f == find(d, denoise_index_rev[i])
                  j == denoise_index[f.ret]
              IN  IF rid[j] < 0
                  THEN LabelLoop(i + 1, c + 1, [rid EXCEPT ![j] = c],
                                 [out EXCEPT ![i] = c], f.ds)
                  ELSE LabelLoop(i + 1, c, rid, [out EXCEPT ![i] = rid[j]], f.ds)
         ELSE LabelLoop(i + 1, c, rid, [out EXCEPT ![i] = -1], d)

\* the end of the loop of do_genie and get_labels, the last call of apply_genie
get_labels ==
    /\ pc = "loop"
    /\ ~(it < NumMerges)
    /\ LET r == LabelLoop(0, 0, [i \in 0..n-1 |-> -1], res, ds)
       IN  /\ res' = r.res
           /\ ds' = r.ds
    /\ pc' = "done"
    /\ UNCHANGED <<input_vars, ctor_vars, skiplist_vars, lastm, it, merged, branch,
                   oob, call>>

\* ------------------------------------------------------------------------
\* The engine on valid inputs
\* ------------------------------------------------------------------------

\* ascending weights of length len, with ties
RampWeights(len) == [i \in 0..len-1 |-> Min2(i, MaxW)]

\* the state before the constructor runs, the caller at position p: the
\* members as the initialiser list leaves them
Fresh(p, nn, d, ind, noise, k, g) ==
    /\ pc = p
    /\ n = nn
    /\ mst_d = d
    /\ mst_i = ind
    /\ noise_leaves = noise
    /\ n_clusters = k
    /\ gini_threshold = g
    /\ res = FreshLabels(nn)
    /\ deg = [i \in 0..nn-1 |-> 0]
    /\ noise_count = 0
    /\ denoise_index = [i \in 0..nn-1 |-> 0]
    /\ denoise_index_rev = [i \in 0..nn-1 |-> 0]
    /\ next_edge = [i \in 0..nn-1 |-> 0]
    /\ prev_edge = [i \in 0..nn-1 |-> 0]
    /\ curidx = 0
    /\ lastidx = 0
    /\ ds = CGiniDisjointSets(0)
    /\ lastm = 0
    /\ it = 0
    /\ merged = <<>>
    /\ branch = <<>>
    /\ oob = FALSE
    /\ call = <<>>
    /\ C = <<>>
    /\ xc = 0
    /\ yc = 0

\* the scenarios S1 to S4 and S6 of the specification (S4 with its edges in
\* ascending order of weight)
PathEdges(nn) == [e \in 0..nn-2 |-> <<e, e + 1>>]

StarEdges(nn) == [e \in 0..nn-2 |-> <<0, e + 1>>]

S4Edges == [e \in 0..4 |-> <<<<0, 1>>, <<1, 2>>, <<3, 4>>, <<4, 5>>, <<2, 3>>>>[e + 1]]

S4Weights == [e \in 0..4 |-> IF e < 4 THEN 1 ELSE 10]

Scenarios ==
    { [n |-> 5, d |-> [e \in 0..3 |-> e + 1], ind |-> PathEdges(5), noise |-> FALSE,
       k |-> 2, g |-> <<1, 1>>],
      [n |-> 5, d |-> [e \in 0..3 |-> e + 1], ind |-> PathEdges(5), noise |-> FALSE,
       k |-> 2, g |-> <<0, 1>>],
      [n |-> 5, d |-> [e \in 0..3 |-> 1], ind |-> StarEdges(5), noise |-> TRUE,
       k |-> 1, g |-> <<1, 2>>],
      [n |-> 6, d |-> S4Weights, ind |-> S4Edges, noise |-> FALSE,
       k |-> 2, g |-> <<1, 1>>],
      [n |-> 4, d |-> [e \in 0..2 |-> e + 1], ind |-> PathEdges(4), noise |-> TRUE,
       k |-> 3, g |-> <<3, 10>>] }

\* three trees of 7 vertices for the Genie walk: on the first an iteration
\* of the Genie branch finds lastidx behind curidx with m = lastm, on the
\* second the walk starts at the memoised lastidx and goes on past it, on
\* the third the walk passes two slots before it stops
MemoEdges1 == [e \in 0..5 |->
    <<<<0, 1>>, <<0, 2>>, <<3, 4>>, <<3, 5>>, <<0, 3>>, <<0, 6>>>>[e + 1]]

MemoEdges2 == [e \in 0..5 |->
    <<<<0, 1>>, <<2, 3>>, <<0, 2>>, <<4, 5>>, <<0, 4>>, <<0, 6>>>>[e + 1]]

MemoEdges3 == [e \in 0..5 |->
    <<<<0, 1>>, <<2, 3>>, <<4, 5>>, <<0, 2>>, <<0, 4>>, <<0, 6>>>>[e + 1]]

MemoTrees ==
    { [n |-> 7, d |-> RampWeights(6), ind |-> MemoEdges1, noise |-> FALSE,
       k |-> 1, g |-> <<3, 10>>],
      [n |-> 7, d |-> RampWeights(6), ind |-> MemoEdges2, noise |-> FALSE,
       k |-> 1, g |-> <<0, 1>>],
      [n |-> 7, d |-> RampWeights(6), ind |-> MemoEdges3, noise |-> FALSE,
       k |-> 1, g |-> <<0, 1>>] }

\* two trees of 6 vertices: a path whose four inner vertices are clustered
\* in noise mode through both branches, and a tree on which the Genie
\* branch takes a slot from the middle of the chain
SpliceEdges == [e \in 0..4 |->
    <<<<0, 1>>, <<2, 3>>, <<1, 2>>, <<2, 4>>, <<0, 5>>>>[e + 1]]

SixTrees ==
    { [n |-> 6, d |-> RampWeights(5), ind |-> PathEdges(6), noise |-> TRUE,
       k |-> 2, g |-> <<0, 1>>],
      [n |-> 6, d |-> RampWeights(5), ind |-> SpliceEdges, noise |-> FALSE,
       k |-> 2, g |-> <<0, 1>>] }

Init ==
    \/ \E nn \in 2..MaxN : \E ind \in TreeEdges(nn) : \E noise \in BOOLEAN :
       \E k \in 1..nn : \E g \in Thresholds :
           Fresh("new", nn, RampWeights(nn - 1), ind, noise, k, g)
    \/ \E s \in Scenarios \cup SixTrees \cup MemoTrees : Fresh("new", s.n, s.d, s.ind, s.noise, s.k, s.g)

Next ==
    \/ CGenie
    \/ skiplist_init
    \/ do_genie
    \/ GenieCorrection
    \/ SingleLinkage
    \/ get_labels

Spec == Init /\ [][Next]_vars

\* ------------------------------------------------------------------------
\* The constructor on unchecked inputs
\* ------------------------------------------------------------------------

\* any endpoint, in range or not
Endpoints(nn) == (-1..nn) \X (-1..nn)

InitCtor ==
    \/ \E nn \in 0..MaxCtorN : \E ind \in [0..nn-2 -> Endpoints(nn)] :
       \E noise \in BOOLEAN :
           Fresh("new", nn, RampWeights(nn - 1), ind, noise, 1, <<0, 1>>)
    \/ \E nn \in 2..MaxSortN : \E ind \in TreeEdges(nn) :
       \E d \in [0..nn-2 -> 0..MaxW] : \E noise \in BOOLEAN :
           Fresh("new", nn, d, ind, noise, 1, <<0, 1>>)

NextCtor == CGenie

SpecCtor == InitCtor /\ [][NextCtor]_vars

\* ------------------------------------------------------------------------
\* Cget_graph_node_degrees on its own: the edge list is mst_i, num_edges
\* its length, deg the output array
\* ------------------------------------------------------------------------

NumEdges == Cardinality(DOMAIN mst_i)

GraphNodeDegrees ==
    /\ pc = "degrees"
    /\ LET r == Cget_graph_node_degrees(mst_i, NumEdges, n)
       IN  /\ deg' = r.deg
           /\ pc' = IF r.err = "none" THEN "returned" ELSE r.err
    /\ UNCHANGED <<input_vars, res, noise_count, denoise_index, denoise_index_rev,
                   skiplist_vars, loop_vars, oob, call>>

InitDeg ==
    \E nn \in 0..MaxCtorN : \E ne \in 0..MaxEdges :
    \E ind \in [0..ne-1 -> Endpoints(nn)] :
        Fresh("degrees", nn, RampWeights(ne), ind, FALSE, 1, <<0, 1>>)

NextDeg == GraphNodeDegrees

SpecDeg == InitDeg /\ [][NextDeg]_vars

\* ------------------------------------------------------------------------
\* DisjointSets on its own: any sequence of find and merge calls, with
\* arguments in range or not
\* ------------------------------------------------------------------------

DS_find ==
    /\ pc = "sets"
    /\ \E x \in -1..ds.n :
         LET r == find(ds, x)
         IN  /\ ds' = r.ds
             /\ call' = [op |-> "find", x |-> x, y |-> x, ret |-> r.ret,
                         err |-> r.err, before |-> ds]
    /\ UNCHANGED <<pc, input_vars, res, ctor_vars, skiplist_vars, lastm, it,
                   merged, branch, oob>>

DS_merge ==
    /\ pc = "sets"
    /\ \E x \in -1..ds.n : \E y \in -1..ds.n :
         LET r == merge(ds, x, y)
         IN  /\ ds' = r.ds
             /\ call' = [op |-> "merge", x |-> x, y |-> y, ret |-> r.ret,
                         err |-> r.err, before |-> ds]
    /\ UNCHANGED <<pc, input_vars, res, ctor_vars, skiplist_vars, lastm, it,
                   merged, branch, oob>>

InitDS ==
    /\ \E nn \in 0..MaxDS : ds = DisjointSets(nn)
    /\ call = [op |-> "new", x |-> 0, y |-> 0, ret |-> 0, err |-> "none",
               before |-> ds]
    /\ pc = "sets"
    /\ n = 0
    /\ mst_d = <<>>
    /\ mst_i = <<>>
    /\ noise_leaves = FALSE
    /\ n_clusters = 1
    /\ gini_threshold = <<0, 1>>
    /\ res = <<>>
    /\ deg = <<>>
    /\ noise_count = 0
    /\ denoise_index = <<>>
    /\ denoise_index_rev = <<>>
    /\ next_edge = <<>>
    /\ prev_edge = <<>>
    /\ curidx = 0
    /\ lastidx = 0
    /\ lastm = 0
    /\ it = 0
    /\ merged = <<>>
    /\ branch = <<>>
    /\ oob = FALSE
    /\ C = <<>>
    /\ xc = 0
    /\ yc = 0

NextDS == DS_find \/ DS_merge

SpecDS == InitDS /\ [][NextDS]_vars

\* ------------------------------------------------------------------------
\* Capply_pivoting (c_compare_partitions.h) on its own: C is c_contiguous,
\* entry (i, j) of an xc-by-yc matrix is C[i*yc + j]
\* ------------------------------------------------------------------------

\* the loop over j = i+1 .. cols-1 that finds w, the first column from i on
\* with the largest entry of row i
RECURSIVE ArgMaxLoop(_, _, _, _, _)
ArgMaxLoop(M, cols, i, j, w) ==
    IF ~(j < cols) THEN w
    ELSE ArgMaxLoop(M, cols, i, j + 1,
                    IF M[i * cols + w] < M[i * cols + j] THEN j ELSE w)

\* the loop over the rows that swaps the columns i and w
SwapColumns(M, rows, cols, i, w) ==
    [p \in DOMAIN M |->
        IF p % cols = i THEN M[p - i + w]
        ELSE IF p % cols = w THEN M[p - w + i]
        ELSE M[p]]

\* the outer loop from row i on
RECURSIVE PivotLoop(_, _, _, _)
PivotLoop(M, rows, cols, i) ==
    IF ~(i < Min2(rows - 1, cols - 1)) THEN M
    ELSE PivotLoop(SwapColumns(M, rows, cols, i, ArgMaxLoop(M, cols, i, i + 1, i)),
                   rows, cols, i + 1)

Capply_pivoting ==
    /\ pc = "matrix"
    /\ C' = PivotLoop(C, xc, yc, 0)
    /\ call' = [op |-> "Capply_pivoting", before |-> C]
    /\ pc' = "pivoted"
    /\ UNCHANGED <<n, mst_d, mst_i, noise_leaves, n_clusters, gini_threshold,
                   xc, yc, res, ctor_vars, skiplist_vars, loop_vars, oob>>

InitPiv ==
    /\ \E r \in 0..MaxCells : \E c \in 0..MaxCells :
           /\ r * c <= MaxCells
           /\ xc = r
           /\ yc = c
           /\ C \in [0..r*c-1 -> 0..MaxCount]
    /\ call = [op |-> "new", before |-> C]
    /\ pc = "matrix"
    /\ n = 0
    /\ mst_d = <<>>
    /\ mst_i = <<>>
    /\ noise_leaves = FALSE
    /\ n_clusters = 1
    /\ gini_threshold = <<0, 1>>
    /\ res = <<>>
    /\ deg = <<>>
    /\ noise_count = 0
    /\ denoise_index = <<>>
    /\ denoise_index_rev = <<>>
    /\ next_edge = <<>>
    /\ prev_edge = <<>>
    /\ curidx = 0
    /\ lastidx = 0
    /\ ds = DisjointSets(0)
    /\ lastm = 0
    /\ it = 0
    /\ merged = <<>>
    /\ branch = <<>>
    /\ oob = FALSE

NextPiv == Capply_pivoting

SpecPiv == InitPiv /\ [][NextPiv]_vars

\* ------------------------------------------------------------------------
\* Properties
\* ------------------------------------------------------------------------

\* positions at which a call has ended in an exception or in undefined
\* behaviour
Failures == {"domain_error", "runtime_error", "invalid_argument", "crashed",
             "undefined"}

\* the degree of vertex v in the edge list, counted from the edges
TreeDegree(v) ==
    Cardinality({e \in DOMAIN mst_i : mst_i[e][1] = v \/ mst_i[e][2] = v})

\* the vertices joined to a vertex of S by the edge slots E
RECURSIVE Reach(_, _)
Reach(E, S) ==
    LET T == S \cup {mst_i[e][2] : e \in {e \in E : mst_i[e][1] \in S}}
                \cup {mst_i[e][1] : e \in {e \in E : mst_i[e][2] \in S}}
    IN  IF T = S THEN S ELSE Reach(E, T)

\* the edge list is a spanning tree on 0..n-1
ValidTree ==
    /\ n >= 2
    /\ DOMAIN mst_i = 0..n-2
    /\ \A e \in 0..n-2 : mst_i[e][1] \in 0..n-1 /\ mst_i[e][2] \in 0..n-1
    /\ Reach(0..n-2, {0}) = 0..n-1

IsInput(nn, ind, noise, k, g) ==
    /\ n = nn
    /\ mst_i = ind
    /\ noise_leaves = noise
    /\ n_clusters = k
    /\ gini_threshold = g

\* C1: apply_genie on a valid input with N - n_clusters >= 1 raises nothing,
\* and the labels it writes all lie in {-1, 0, ..., n_clusters-1}, the
\* non-negative ones being exactly {0, ..., n_clusters-1}
C1_PartitionValid ==
    /\ pc \in Failures => TooManyClusters(n, noise_count, n_clusters)
    /\ pc = "done" =>
         /\ \A i \in 0..n-1 : res[i] \in -1..n_clusters-1
         /\ {res[i] : i \in 0..n-1} \ {-1} = 0..n_clusters-1

C1_Witness ==
    /\ pc = "done"
    /\ noise_leaves
    /\ n_clusters >= 2
    /\ \E p \in 1..Len(branch) : branch[p] = "G"

\* C2: after apply_genie, a vertex is labelled -1 exactly when noise_leaves
\* is on and the vertex has degree 1 in the MST
C2_NoiseIffLeaf ==
    pc = "done" =>
        \A i \in 0..n-1 : (res[i] = -1) <=> (noise_leaves /\ TreeDegree(i) = 1)

C2_Witness ==
    /\ pc = "done"
    /\ noise_leaves
    /\ \E i \in 0..n-1 : res[i] = -1
    /\ \E i \in 0..n-1 : res[i] > 0

\* C3: with threshold 1 and no noise the Genie branch is never taken, the
\* merged edges are the slots 0..n-k-1 in order, and two vertices share a
\* label exactly when the edges 0..n-k-1 connect them; scenarios S1 and S4
C3_SingleLinkage ==
    (gini_threshold = <<1, 1>> /\ ~noise_leaves) =>
        /\ \A p \in 1..Len(branch) : branch[p] = "S"
        /\ \A p \in 1..Len(merged) : merged[p] = p - 1
        /\ pc = "done" =>
             /\ Len(merged) = n - n_clusters
             /\ \A i, j \in 0..n-1 :
                  (res[i] = res[j]) <=> (j \in Reach(0..n-n_clusters-1, {i}))
             /\ IsInput(5, PathEdges(5), FALSE, 2, <<1, 1>>)
                  => res = [i \in 0..4 |-> IF i < 4 THEN 0 ELSE 1]
             /\ IsInput(6, S4Edges, FALSE, 2, <<1, 1>>)
                  => res = [i \in 0..5 |-> IF i < 3 THEN 0 ELSE 1]

C3_Witness ==
    /\ pc = "done"
    /\ IsInput(6, S4Edges, FALSE, 2, <<1, 1>>)
    /\ merged = <<0, 1, 2, 3>>

\* scenario S2: the path on 5 vertices, 2 clusters, threshold 0, no noise
S2Input == IsInput(5, PathEdges(5), FALSE, 2, <<0, 1>>)

\* C4 as stated: scenario S2 yields the labels [0,0,0,1,1]
C4_Original ==
    (S2Input /\ pc = "done") => res = [i \in 0..4 |-> IF i < 3 THEN 0 ELSE 1]

\* C4 as amended: scenario S2 completes and yields the labels [0,0,0,0,1]
\* (final cluster sizes {4,1}), after merging the edge slots 0, 1, 2, the
\* last two in the Genie branch
C4_S2Labels ==
    S2Input =>
        /\ pc \notin Failures
        /\ pc = "done" =>
             /\ res = [i \in 0..4 |-> IF i < 4 THEN 0 ELSE 1]
             /\ merged = <<0, 1, 2>>
             /\ branch = <<"S", "G", "G">>

C4_Witness == S2Input /\ pc = "done"

\* scenario S3: the star on 5 vertices with noise leaves, 1 cluster
S3Input == IsInput(5, StarEdges(5), TRUE, 1, <<1, 2>>)

\* C5 as stated: scenario S3 raises nothing, indexes no array outside its
\* bounds and yields the labels [0,-1,-1,-1,-1]
C5_Original ==
    S3Input =>
        /\ pc \notin Failures
        /\ ~oob
        /\ pc = "done" => res = [i \in 0..4 |-> IF i = 0 THEN 0 ELSE -1]

\* C6 as stated: when N - n_clusters <= 0, apply_genie ends in a runtime
\* error, before any merge and with the caller's buffer as it was
C6_Original ==
    (/\ pc \notin {"new", "constructed", "skiplist"}
     /\ TooManyClusters(n, noise_count, n_clusters)) =>
        /\ pc = "runtime_error"
        /\ merged = <<>>
        /\ res = FreshLabels(n)

\* C7: on a spanning tree the constructor raises a domain error exactly
\* when two adjacent weights descend; equal adjacent weights pass
C7_UnsortedRaises ==
    (pc # "new" /\ ValidTree) =>
        ((pc = "domain_error") <=> (\E i \in 0..n-3 : mst_d[i] > mst_d[i+1]))

C7_Witness ==
    /\ pc = "domain_error"
    /\ ValidTree
    /\ n = 4
    /\ mst_d[0] = mst_d[1]
    /\ mst_d[1] > mst_d[2]

\* C8 as stated: constructing with n < 2 raises
C8_Original == (n < 2 /\ pc # "new") => pc \in Failures

\* C8 as amended: constructing with n < 2 raises (a runtime error, for the
\* want of two leaves) exactly when noise_leaves is on; with noise_leaves
\* off the construction succeeds
C8_SmallN ==
    (n < 2 /\ pc # "new") =>
        IF noise_leaves THEN pc = "runtime_error" ELSE pc = "constructed"

C8_Witness == n < 2 /\ pc = "runtime_error"

\* an edge slot with no negative endpoint and an endpoint >= n
OutOfRange(e) ==
    /\ mst_i[e][1] >= 0
    /\ mst_i[e][2] >= 0
    /\ (mst_i[e][1] >= n \/ mst_i[e][2] >= n)

\* C9 as stated: an endpoint >= n in any edge raises a domain error
C9_Original ==
    (/\ pc # "degrees"
     /\ \E e \in DOMAIN mst_i : mst_i[e][1] >= n \/ mst_i[e][2] >= n)
    => pc = "domain_error"

\* C9 as amended: an edge with an endpoint >= n and no negative endpoint
\* raises a domain error; an edge with a negative endpoint is skipped
\* whatever its other endpoint, so that without an edge of the first kind
\* and without a self-loop the call returns
C9_RangeError ==
    pc # "degrees" =>
        /\ (\E e \in DOMAIN mst_i : OutOfRange(e)) => pc = "domain_error"
        /\ (\A e \in DOMAIN mst_i :
               ~OutOfRange(e) /\ (mst_i[e][1] = mst_i[e][2] => mst_i[e][1] < 0))
           => pc = "returned"

C9_Witness ==
    /\ pc = "domain_error"
    /\ \E e \in DOMAIN mst_i : mst_i[e][1] = 0 /\ mst_i[e][2] = n
    /\ \E e \in DOMAIN mst_i : mst_i[e][1] = n /\ mst_i[e][2] = -1

\* C10: in DisjointSets par[i] <= i for every element i, after construction
\* and after every find and merge, raising or not
C10_ParentNotAbove == \A i \in 0..ds.n-1 : ds.par[i] <= i

C10_Witness ==
    /\ pc = "sets"
    /\ call.op = "find"
    /\ call.before.par # ds.par
    /\ \E i \in 0..ds.n-1 : ds.par[i] < i /\ call.before.par[i] # ds.par[i]

\* the elements of the set of x under the parent vector par
SetOf(par, x) == {y \in DOMAIN par : Root(par, y) = Root(par, x)}

\* the nodes find(x) visits under par: x and its ancestors
RECURSIVE PathNodes(_, _)
PathNodes(par, x) == IF par[x] = x THEN {x} ELSE {x} \cup PathNodes(par, par[x])

\* a stand-alone call with arguments in range
InRange(c) == c.x \in 0..c.before.n-1 /\ c.y \in 0..c.before.n-1

\* C11: merge(x, y) on two elements of the same set raises (invalid
\* argument) and leaves the number of sets and the set of every element as
\* they were
C11_MergeSameSet ==
    (/\ call.op = "merge"
     /\ InRange(call)
     /\ Root(call.before.par, call.x) = Root(call.before.par, call.y)) =>
        /\ call.err = "invalid_argument"
        /\ ds.k = call.before.k
        /\ \A i \in 0..ds.n-1 : SetOf(ds.par, i) = SetOf(call.before.par, i)

C11_Witness ==
    /\ call.op = "merge"
    /\ call.err = "invalid_argument"
    /\ call.x # call.y
    /\ ds.par # call.before.par

\* C12: merge(x, y) on elements of two different sets returns the smaller
\* of the two former roots, lowers the number of sets by one, makes
\* find(x) = find(y) = the value returned, joins the two sets and leaves
\* every other set as it was
C12_MergeJoins ==
    (/\ call.op = "merge"
     /\ InRange(call)
     /\ Root(call.before.par, call.x) # Root(call.before.par, call.y)) =>
        LET rx == Root(call.before.par, call.x)
            ry == Root(call.before.par, call.y)
            joined == SetOf(call.before.par, call.x) \cup SetOf(call.before.par, call.y)
        IN  /\ call.err = "none"
            /\ call.ret = Min2(rx, ry)
            /\ ds.k = call.before.k - 1
            /\ find(ds, call.x).ret = call.ret
            /\ find(ds, call.y).ret = call.ret
            /\ \A i \in 0..ds.n-1 :
                 SetOf(ds.par, i) = IF i \in joined THEN joined
                                    ELSE SetOf(call.before.par, i)

C12_Witness ==
    /\ call.op = "merge"
    /\ call.err = "none"
    /\ Cardinality(SetOf(call.before.par, call.x)) >= 2
    /\ call.ret # Root(call.before.par, call.x)
    /\ ds.k >= 2

\* C13: after find(x) has returned r every node that was on the path from x
\* to r has the parent r; a second find(x) returns r, follows at most one
\* parent link and changes no entry of par
C13_FindIdempotent ==
    (call.op = "find" /\ call.err = "none") =>
        /\ \A v \in PathNodes(call.before.par, call.x) : ds.par[v] = call.ret
        /\ find(ds, call.x).ret = call.ret
        /\ find(ds, call.x).ds = ds
        /\ Cardinality(PathNodes(ds.par, call.x)) <= 2

C13_Witness ==
    /\ call.op = "find"
    /\ call.err = "none"
    /\ Cardinality(PathNodes(call.before.par, call.x)) >= 3
    /\ Cardinality(PathNodes(ds.par, call.x)) = 2

\* the non-negative labels of the vertices before i
EarlierLabels(i) == {res[j] : j \in 0..i-1} \ {-1}

\* C14: after a successful apply_genie the non-negative labels are numbered
\* in order of first occurrence: a vertex with a non-negative label has the
\* label of an earlier vertex or the number of distinct labels before it
\* (0 for the first one, else one more than the largest label so far)
C14_FirstOccurrenceOrder ==
    pc = "done" =>
        \A i \in 0..n-1 :
            res[i] >= 0 =>
                \/ res[i] \in EarlierLabels(i)
                \/ /\ res[i] = Cardinality(EarlierLabels(i))
                   /\ \A l \in EarlierLabels(i) : l < res[i]

C14_Witness ==
    /\ pc = "done"
    /\ noise_leaves
    /\ \E i \in 0..n-1 : \E j \in i+1..n-1 : \E l \in j+1..n-1 :
           /\ res[i] = 0
           /\ res[j] = 1
           /\ res[l] = 0

\* the roots of d and the size of the set of each
Roots(d) == {x \in 0..d.n-1 : d.par[x] = x}
SizeOf(d, x) == Cardinality(SetOf(d.par, x))

\* the sum of sz over the elements below x
RECURSIVE SumSizes(_, _)
SumSizes(sz, x) == IF x = 0 THEN 0 ELSE sz[x-1] + SumSizes(sz, x - 1)

\* C15: in the sets of the merge loop, from the singletons on and after
\* every merge, get_count(x) is the number of elements of the set of x,
\* get_smallest_count() is the least size of a set, every bucket tab[s] is
\* the number of sets of size s, and the sizes add up to N
C15_CountsAreSizes ==
    pc \in {"loop", "done"} =>
        LET rt == [x \in 0..ds.n-1 |-> Root(ds.par, x)]
            \* the size of the set of root r, 0 for an r that is no root
            sz == [r \in 0..ds.n-1 |-> Cardinality({y \in 0..ds.n-1 : rt[y] = r})]
        IN  /\ \A x \in 0..ds.n-1 : get_count(ds, x) = sz[rt[x]]
            /\ \A r \in 0..ds.n-1 : sz[r] > 0 => get_smallest_count(ds) <= sz[r]
            /\ \E r \in 0..ds.n-1 : get_smallest_count(ds) = sz[r]
            /\ \A s \in 1..ds.n :
                 ds.tab[s] = Cardinality({r \in 0..ds.n-1 : sz[r] = s})
            /\ SumSizes(sz, ds.n) = ds.n
            /\ ds.n = n - noise_count

C15_Witness ==
    /\ pc = "loop"
    /\ it >= 3
    /\ get_smallest_count(ds) = 2
    /\ \E x \in Roots(ds) : SizeOf(ds, x) > 2
    /\ ds.k >= 2

\* the slots following next_edge from slot l up to the first position that
\* is no edge slot
RECURSIVE Chain(_)
Chain(l) == IF l \notin 0..n-2 THEN <<>> ELSE <<l>> \o Chain(next_edge[l])

\* the next iteration of the loop takes the Genie branch
GenieTurn ==
    /\ pc = "loop"
    /\ it < n - noise_count - n_clusters
    /\ GiniAbove(ds, gini_threshold)

\* the slot the Genie branch selects in this state
Selected ==
    Walk(ds, WalkStart(get_smallest_count(ds), lastm, curidx, lastidx),
         get_smallest_count(ds))

\* the vertices of slot e as elements of the sets
End1(e) == denoise_index_rev[mst_i[e][1]]
End2(e) == denoise_index_rev[mst_i[e][2]]

\* the first slot of the chain from curidx with an endpoint in a set of
\* size m, -1 when there is none
FreshScan(m) ==
    LET c    == Chain(curidx)
        hits == {p \in 1..Len(c) : get_count(ds, End1(c[p])) = m
                                   \/ get_count(ds, End2(c[p])) = m}
    IN  IF hits = {} THEN 0 - 1
        ELSE c[CHOOSE p \in hits : \A q \in hits : p <= q]

\* C16: in every iteration through the Genie branch the edge selected,
\* with the walk started at the memoised lastidx unless m # lastm or
\* lastidx < curidx, is the first edge of the chain from curidx that has an
\* endpoint in a set of size m = get_smallest_count()
C16_MemoIsFreshScan ==
    GenieTurn =>
        LET e == Selected
        IN  /\ e \in 0..n-2
            /\ e = FreshScan(get_smallest_count(ds))

C16_Witness ==
    /\ GenieTurn
    /\ get_smallest_count(ds) = lastm
    /\ curidx < lastidx
    /\ Selected # lastidx
    /\ \E p \in 1..Len(branch) : branch[p] = "S"

\* C17: every merge of the Genie branch joins two sets the smaller of which
\* has the size get_smallest_count() read at the start of the iteration
C17_JoinsSmallest ==
    GenieTurn =>
        LET e == Selected
        IN  /\ Readable(e)
            /\ Root(ds.par, End1(e)) # Root(ds.par, End2(e))
            /\ Min2(SizeOf(ds, End1(e)), SizeOf(ds, End2(e))) = get_smallest_count(ds)

C17_Witness ==
    /\ GenieTurn
    /\ Selected # curidx
    /\ Selected # next_edge[curidx]
    /\ SizeOf(ds, End1(Selected)) # SizeOf(ds, End2(Selected))
    /\ \E p \in 1..Len(branch) : branch[p] = "G"

\* C18: with N - n_clusters >= 1 on a valid tree do_genie ends after exactly
\* N - n_clusters merges: no failure, every iteration has an edge slot to
\* take and next_edge leads strictly upwards from every slot of the chain
\* (so every walk stops), no slot is taken twice, every merge joins two
\* different sets (the number of sets goes down by one each time), and
\* n_clusters sets are left at the end
C18_ExactlyNMinusKMerges ==
    /\ pc \in Failures => n - noise_count - n_clusters <= 0
    /\ pc \in {"loop", "done"} =>
         /\ n - noise_count - n_clusters >= 1
         /\ Len(merged) = it
         /\ it <= n - noise_count - n_clusters
         /\ \A p, q \in 1..Len(merged) : p # q => merged[p] # merged[q]
         /\ ds.k = n - noise_count - it
         /\ LET c == Chain(curidx)
            IN  \A p \in 1..Len(c) : next_edge[c[p]] > c[p]
         /\ it < n - noise_count - n_clusters => curidx \in 0..n-2
         /\ GenieTurn => Selected \in 0..n-2
    /\ pc = "done" =>
         /\ it = n - noise_count - n_clusters
         /\ ds.k = n_clusters

C18_Witness ==
    /\ pc = "done"
    /\ n_clusters >= 2
    /\ it >= 3
    /\ curidx \in 0..n-2
    /\ \E p \in 1..Len(merged) : merged[p] > curidx
    /\ \E p \in 1..Len(branch) : branch[p] = "S"

\* the edge slots skiplist_init is to put on the chain: all of them, in
\* noise mode those with no leaf at either end
EligibleSlots ==
    {e \in 0..n-2 : noise_leaves =>
                      TreeDegree(mst_i[e][1]) > 1 /\ TreeDegree(mst_i[e][2]) > 1}

\* the slots taken so far
Consumed == {merged[p] : p \in 1..Len(merged)}

\* C19: from skiplist_init on and after every merge, next_edge from curidx
\* visits exactly the eligible slots not yet taken, in ascending order;
\* prev_edge of the successor of a slot of the chain is that slot; and the
\* chain is one shorter after every merge
C19_ChainIsLiveEdges ==
    pc \in {"skiplist", "loop", "done"} =>
        LET c == Chain(curidx)
        IN  /\ {c[p] : p \in 1..Len(c)} = EligibleSlots \ Consumed
            /\ \A p \in 1..Len(c)-1 : c[p] < c[p+1]
            /\ \A p \in 1..Len(c)-1 : prev_edge[c[p+1]] = c[p]
            /\ Len(c) = Cardinality(EligibleSlots) - Len(merged)

C19_Witness ==
    /\ pc = "loop"
    /\ Len(Chain(curidx)) >= 2
    /\ \E p \in 1..Len(merged) : merged[p] > curidx
    /\ \E p \in 1..Len(branch) : branch[p] = "S"

\* the slots of the chain from curidx
Live == LET c == Chain(curidx) IN {c[p] : p \in 1..Len(c)}

\* C20 as stated: at every point of the merge loop, curidx <= lastidx
\* whenever both are edge slots, and every slot of the chain from curidx to
\* lastidx is unconsumed
C20_Original ==
    (pc \in {"skiplist", "loop", "done"} /\ curidx \in 0..n-2 /\ lastidx \in 0..n-2) =>
        /\ curidx <= lastidx
        /\ lastidx \in Live

\* C20, amended: at every point of the merge loop with curidx and lastidx
\* both edge slots, either curidx <= lastidx and lastidx is on the chain
\* from curidx (every slot of the chain up to it is unconsumed), or the last
\* iteration took the single-linkage branch and lastidx is a consumed slot
\* behind curidx; the walk of the next Genie iteration starts on the chain
C20_MemoOnChainOrBehind ==
    (pc \in {"skiplist", "loop", "done"} /\ curidx \in 0..n-2 /\ lastidx \in 0..n-2) =>
        /\ curidx <= lastidx => lastidx \in Live
        /\ lastidx < curidx =>
             /\ Len(branch) >= 1
             /\ branch[Len(branch)] = "S"
             /\ lastidx \in Consumed
        /\ GenieTurn =>
             WalkStart(get_smallest_count(ds), lastm, curidx, lastidx) \in Live

C20_Witness ==
    /\ GenieTurn
    /\ lastidx < curidx
    /\ \E p \in 1..Len(branch) : branch[p] = "G"

\* the positions at which the while loop of the Genie branch started at
\* slot l reads an edge, the one it stops at last
RECURSIVE WalkPath(_, _, _)
WalkPath(d, l, m) ==
    IF ~Readable(l) THEN <<l>>
    ELSE IF NoneSmallest(d, l, m) THEN <<l>> \o WalkPath(d, next_edge[l], m)
         ELSE <<l>>

\* slot l is an edge slot of the chain: eligible, not taken, with both
\* endpoints among the elements of the sets
LiveSlot(l) ==
    /\ l \in 0..n-2
    /\ l \in EligibleSlots
    /\ l \notin Consumed
    /\ Readable(l)

\* C21: with N - n_clusters >= 1 on a valid tree every position at which
\* do_genie reads an edge is a live edge slot in 0..n-2: curidx in the
\* single-linkage branch, lastidx at every step of the Genie walk and at
\* the selection (never the sentinel n-1, never -1); in the splice case
\* prev_edge[lastidx] is at least 0 and below lastidx
C21_ReadsLiveSlots ==
    /\ pc # "undefined"
    /\ (pc = "loop" /\ it < n - noise_count - n_clusters) =>
         IF GiniAbove(ds, gini_threshold)
         THEN LET m    == get_smallest_count(ds)
                  path == WalkPath(ds, WalkStart(m, lastm, curidx, lastidx), m)
                  e    == path[Len(path)]
              IN  /\ \A p \in 1..Len(path) : LiveSlot(path[p])
                  /\ e # curidx => /\ prev_edge[e] >= 0
                                   /\ prev_edge[e] < e
                                   /\ LiveSlot(prev_edge[e])
         ELSE LiveSlot(curidx)

C21_Witness ==
    /\ GenieTurn
    /\ Selected # curidx
    /\ prev_edge[Selected] < Selected - 1
    /\ \E p \in 1..Len(branch) : branch[p] = "S"

\* the least element of a non-empty set of integers
Least(S) == CHOOSE a \in S : \A b \in S : a <= b

\* the vertices of the cluster of vertex i, noise vertices left out
ClusterOf(i) ==
    {v \in 0..n-1 : /\ denoise_index_rev[v] >= 0
                    /\ Root(ds.par, denoise_index_rev[v])
                         = Root(ds.par, denoise_index_rev[i])}

\* C22: after any sequence of merge and find calls find(x) returns the
\* least element of the set of x (the root of a set is its smallest
\* member); in get_labels the vertex of the root of a cluster is therefore
\* the first vertex of the cluster in the ascending scan
C22_RootIsMinimum ==
    /\ \A x \in 0..ds.n-1 : find(ds, x).ret = Least(SetOf(ds.par, x))
    /\ (pc = "sets" /\ call.op = "find" /\ call.err = "none") =>
           /\ call.ret = Least(SetOf(call.before.par, call.x))
           /\ call.ret = Least(SetOf(ds.par, call.x))
    /\ pc \in {"loop", "done"} =>
           \A i \in 0..n-1 :
               denoise_index_rev[i] >= 0 =>
                   denoise_index[Root(ds.par, denoise_index_rev[i])]
                       = Least(ClusterOf(i))

C22_Witness ==
    /\ pc = "sets"
    /\ call.op = "find"
    /\ call.err = "none"
    /\ Cardinality(SetOf(ds.par, call.x)) >= 3
    /\ \A y \in SetOf(ds.par, call.x) : y <= call.x
    /\ call.before.par[call.x] # call.ret

\* M is N with its columns permuted
ColumnPermutation(M, N, rows, cols) ==
    \E f \in Permutations(0..cols-1) :
        \A i \in 0..rows-1 : \A j \in 0..cols-1 : M[i * cols + j] = N[i * cols + f[j]]

\* C23 as stated: after Capply_pivoting the matrix is a column permutation
\* of the input, and for every row i < min(xc, yc) the diagonal entry is a
\* largest entry of row i
C23_Original ==
    pc = "pivoted" =>
        /\ \A i \in 0..Min2(xc, yc)-1 : \A j \in 0..yc-1 :
               C[i * yc + j] <= C[i * yc + i]
        /\ ColumnPermutation(C, call.before, xc, yc)

====
